---- MODULE Spec2Model ----
(***************************************************************************)
(* A model of find-crate's manifest search (src/src/lib.rs): a Manifest    *)
(* owns a parsed toml Table and FindOptions (the names of the tables to    *)
(* search, and whether the found key is converted to a rust identifier);   *)
(* Manifest::find probes the named top-level tables in order and returns   *)
(* the first entry whose key, or whose `package` string, the predicate     *)
(* accepts.                                                                *)
(*                                                                         *)
(* Strings are sequences of tokens: a token is a run of characters holding *)
(* no '-' and no '_', or one of the separators "-" and "_".  So            *)
(* "dev-dependencies" is <<"dev", "-", "dependencies">>, and replacing     *)
(* every '-' by '_' acts on the separator tokens.                          *)
(***************************************************************************)
EXTENDS Integers, Sequences, FiniteSets, TLC

VARIABLES
    manifest,   \* Manifest.manifest: the parsed document (a toml Table)
    options,    \* Manifest.options: FindOptions {dependencies, rust_ident}
    ret,        \* the most recent call: its arguments and what it returned
    calls,      \* the strings the predicate was applied to by that call, in order
    queries     \* the finds in progress on other threads (&Manifest is shared)

vars == <<manifest, options, ret, calls, queries>>

----------------------------------------------------------------------------
(* Bounds of the model. *)

\* The most dependency entries one document holds (over all its tables).
MaxEntries == 2

----------------------------------------------------------------------------
(* Option<T>. *)

None == [some |-> FALSE, val |-> <<>>]

Some(x) == [some |-> TRUE, val |-> x]

(* toml::Value: String, Table (an ordered mapping, here a sequence of       *)
(* <<key, value>> pairs with distinct keys); the other primitives occur in  *)
(* no document of this model.                                               *)

StringValue(s) == [tag |-> "String", str |-> s, tab |-> <<>>]

TableValue(t) == [tag |-> "Table", str |-> <<>>, tab |-> t]

\* Value::as_str
as_str(value) == IF value.tag = "String" THEN Some(value.str) ELSE None

\* Value::as_table
as_table(value) == IF value.tag = "Table" THEN Some(value.tab) ELSE None

\* Table::get
get(table, key) ==
    LET hits == {i \in DOMAIN table : table[i][1] = key}
    IN  IF hits = {} THEN None
        ELSE Some(table[CHOOSE i \in hits : \A j \in hits : i <= j][2])

----------------------------------------------------------------------------
(* The table names. *)

dependencies_name == <<"dependencies">>

dev_dependencies_name == <<"dev", "-", "dependencies">>

build_dependencies_name == <<"build", "-", "dependencies">>

target_name == <<"target">>

\* _DEFAULT_DEPENDENCIES / DEFAULT_DEPENDENCIES
DEFAULT_DEPENDENCIES ==
    <<dependencies_name, dev_dependencies_name, build_dependencies_name>>

\* FindOptions::default
FindOptions_default == [dependencies |-> DEFAULT_DEPENDENCIES, rust_ident |-> TRUE]

----------------------------------------------------------------------------
(* find_from_dependencies and its helpers.  A predicate is the set of the   *)
(* strings it accepts.                                                      *)

\* replace leaving every token as it is.
replace_nothing(s) == s

\* str::replace("-", "_")
replace(s) == [i \in DOMAIN s |-> IF s[i] = "-" THEN "_" ELSE s[i]]

\* find_from_dependencies::rust_ident: Cow::Owned(replaced) or Cow::Borrowed(s)
rust_ident(s, convert) ==
    IF convert THEN [cow |-> "Owned", s |-> replace(s)]
    ELSE [cow |-> "Borrowed", s |-> s]

\* find_from_dependencies::version
version(value) ==
    IF as_str(value).some THEN as_str(value)
    ELSE IF ~as_table(value).some THEN None
    ELSE IF ~get(as_table(value).val, <<"version">>).some THEN None
    ELSE as_str(get(as_table(value).val, <<"version">>).val)

\* The `package` string of a value, before the predicate is asked:
\* value.as_table().and_then(|t| t.get("package")).and_then(Value::as_str)
package_str(value) ==
    IF ~as_table(value).some THEN None
    ELSE IF ~get(as_table(value).val, <<"package">>).some THEN None
    ELSE as_str(get(as_table(value).val, <<"package">>).val)

\* find_from_dependencies::package
package(value, predicate) ==
    IF package_str(value).some /\ package_str(value).val \in predicate
    THEN package_str(value)
    ELSE None

\* The closure forgetting the `package` string it matched.
entry_match_package_dropped(key, value, predicate, convert) ==
    IF key \in predicate \/ package(value, predicate).some
    THEN [some |-> TRUE,
          val |-> [key |-> key, version |-> version(value),
                   package |-> [some |-> FALSE, val |-> <<>>],
                   rust_ident |-> rust_ident(key, convert)]]
    ELSE [some |-> FALSE, val |-> <<>>]

\* The closure matching a renamed entry by its `package` string alone.
entry_match_package_only(key, value, predicate, convert) ==
    IF key \in predicate /\ ~package_str(value).some
    THEN [some |-> TRUE,
          val |-> [key |-> key, version |-> version(value),
                   package |-> [some |-> FALSE, val |-> <<>>],
                   rust_ident |-> rust_ident(key, convert)]]
    ELSE IF package(value, predicate).some
    THEN [some |-> TRUE,
          val |-> [key |-> key, version |-> version(value),
                   package |-> package(value, predicate),
                   rust_ident |-> rust_ident(key, convert)]]
    ELSE [some |-> FALSE, val |-> <<>>]

\* The closure of find_from_dependencies, applied to one (key, value) entry.
entry_match(key, value, predicate, convert) ==
    IF key \in predicate
    THEN Some([key |-> key, version |-> version(value), package |-> None,
               rust_ident |-> rust_ident(key, convert)])
    ELSE IF package(value, predicate).some
    THEN Some([key |-> key, version |-> version(value),
               package |-> package(value, predicate),
               rust_ident |-> rust_ident(key, convert)])
    ELSE None

\* The strings that closure applies the predicate to, in order: the key, and
\* the `package` string when the key was not accepted.
entry_calls(key, value, predicate) ==
    IF key \in predicate \/ ~package_str(value).some THEN <<key>>
    ELSE <<key, package_str(value).val>>

\* find_map taking the last item that gives Some, not the first.
find_map_last(results) ==
    LET hits == {i \in DOMAIN results : results[i].some}
    IN  IF hits = {} THEN [some |-> FALSE, val |-> <<>>]
        ELSE results[CHOOSE i \in hits : \A j \in hits : i >= j]

\* find_map: iter.filter_map(f).next(), given f's result on each item. The
\* iterator is lazy: f runs on no item after the first that gives Some.
find_map(results) ==
    LET hits == {i \in DOMAIN results : results[i].some}
    IN  IF hits = {} THEN None
        ELSE results[CHOOSE i \in hits : \A j \in hits : i <= j]

\* find_map running f on every item, whether or not one gave Some.
find_map_visited_all(results) == Len(results)

\* How many items find_map runs f on.
find_map_visited(results) ==
    LET hits == {i \in DOMAIN results : results[i].some}
    IN  IF hits = {} THEN Len(results)
        ELSE CHOOSE i \in hits : \A j \in hits : i <= j

find_from_dependencies(table, predicate, convert) ==
    find_map([i \in DOMAIN table |->
                entry_match(table[i][1], table[i][2], predicate, convert)])

RECURSIVE Concat(_)
Concat(seqs) == IF seqs = <<>> THEN <<>> ELSE Head(seqs) \o Concat(Tail(seqs))

\* The predicate's calls during find_from_dependencies.
find_from_dependencies_calls(table, predicate) ==
    LET n == find_map_visited([i \in DOMAIN table |->
                 entry_match(table[i][1], table[i][2], predicate, TRUE)])
    IN  Concat([i \in 1..n |-> entry_calls(table[i][1], table[i][2], predicate)])

----------------------------------------------------------------------------
(* Package's accessors. *)

\* Package::name
Package_name(p) == p.rust_ident.s

\* Package::original_name
Package_original_name(p) == IF p.package.some THEN p.package.val ELSE p.key

\* Package::is_original
Package_is_original(p) == ~p.package.some

\* Package::version
Package_version(p) == p.version

----------------------------------------------------------------------------
(* Manifest. *)

\* Manifest::_find
Manifest__find(m, opts, dependencies, predicate) ==
    IF ~get(m, dependencies).some THEN None
    ELSE IF ~as_table(get(m, dependencies).val).some THEN None
    ELSE find_from_dependencies(as_table(get(m, dependencies).val).val,
                                predicate, opts.rust_ident)

\* Manifest::find probing the default tables whatever the options name.
Manifest_find_default_tables(m, opts, predicate) ==
    find_map([i \in DOMAIN DEFAULT_DEPENDENCIES |->
                Manifest__find(m, opts, DEFAULT_DEPENDENCIES[i], predicate)])

\* Manifest::find probing the tables nested under `target` before the
\* top-level ones.
Manifest_find_target_first(m, opts, predicate) ==
    LET deps == opts.dependencies
        t == get(m, target_name)
        specs == IF t.some /\ as_table(t.val).some THEN as_table(t.val).val ELSE <<>>
        nested == [i \in DOMAIN specs |->
                     IF as_table(specs[i][2]).some
                     THEN find_map([j \in DOMAIN deps |->
                              Manifest__find(as_table(specs[i][2]).val, opts,
                                             deps[j], predicate)])
                     ELSE [some |-> FALSE, val |-> <<>>]]
    IN  find_map(nested \o [i \in DOMAIN deps |->
                              Manifest__find(m, opts, deps[i], predicate)])

\* Manifest::find
Manifest_find(m, opts, predicate) ==
    find_map([i \in DOMAIN opts.dependencies |->
                Manifest__find(m, opts, opts.dependencies[i], predicate)])

\* The predicate's calls during Manifest::find.
Manifest_find_calls(m, opts, predicate) ==
    LET deps == opts.dependencies
        n == find_map_visited([i \in DOMAIN deps |->
                 Manifest__find(m, opts, deps[i], predicate)])
        tableCalls(d) ==
            IF ~get(m, d).some THEN <<>>
            ELSE IF ~as_table(get(m, d).val).some THEN <<>>
            ELSE find_from_dependencies_calls(as_table(get(m, d).val).val, predicate)
    IN  Concat([i \in 1..n |-> tableCalls(deps[i])])

----------------------------------------------------------------------------
(* The inputs: documents, table-name lists and predicates. *)

\* The dependency entries documents are written with, those of the manifests
\* of tests/test.rs: a bare version string, a table with a `version`, a
\* renamed entry (a table with `package` and `version`), and a table with
\* neither (a path dependency).
Entries ==
    {<< <<"foo">>, StringValue(<<"0.1">>) >>,
     << <<"foo">>, TableValue(<< <<<<"version">>, StringValue(<<"0.1.1">>)>> >>) >>,
     << <<"foo", "-", "renamed">>,
        TableValue(<< <<<<"package">>, StringValue(<<"foo">>)>>,
                      <<<<"version">>, StringValue(<<"0.1">>)>> >>) >>,
     << <<"baz">>, TableValue(<< <<<<"path">>, StringValue(<<"..">>)>> >>) >>}

\* The keys of those entries, and the `package` strings of the renamed ones.
Keys == {e[1] : e \in Entries}

PackageNames == {package_str(e[2]).val : e \in {x \in Entries : package_str(x[2]).some}}

\* The target specs under `target`.
TargetSpecs == {<<"cfg(unix)">>}

\* Where a dependency table lives: at the top level, or under target.<spec>.
Locations ==
    {<<n>> : n \in {dependencies_name, dev_dependencies_name, build_dependencies_name}}
    \cup {<<target_name, s, dependencies_name>> : s \in TargetSpecs}

\* One entry and the table it is written in.
Placements == {[loc |-> l, key |-> e[1], value |-> e[2]] : l \in Locations, e \in Entries}

\* The entries of `ps` written at `loc`, in order, as a table.
RECURSIVE TableAt(_, _)
TableAt(ps, loc) ==
    IF ps = <<>> THEN <<>>
    ELSE (IF Head(ps).loc = loc THEN << <<Head(ps).key, Head(ps).value>> >> ELSE <<>>)
         \o TableAt(Tail(ps), loc)

\* The members of S, as a sequence in the order of `order`.
RECURSIVE Keep(_, _)
Keep(order, S) ==
    IF order = <<>> THEN <<>>
    ELSE (IF Head(order) \in S THEN <<Head(order)>> ELSE <<>>) \o Keep(Tail(order), S)

\* The document holding the entries `ps`: each table that has an entry, the
\* top-level ones first and `target` last.
Document(ps) ==
    LET used == {ps[i].loc : i \in DOMAIN ps}
        top == Keep(DEFAULT_DEPENDENCIES, {l[1] : l \in {u \in used : Len(u) = 1}})
        specs == {l[2] : l \in {u \in used : Len(u) = 3}}
        specSeq == Keep(<< <<"cfg(unix)">> >>, specs)
        targetTable ==
            [i \in DOMAIN specSeq |->
                <<specSeq[i],
                  TableValue(<< <<dependencies_name,
                      TableValue(TableAt(ps, <<target_name, specSeq[i], dependencies_name>>))>> >>)>>]
    IN  [i \in DOMAIN top |-> <<top[i], TableValue(TableAt(ps, <<top[i]>>))>>]
        \o (IF specs = {} THEN <<>> ELSE << <<target_name, TableValue(targetTable)>> >>)

\* A table's keys are distinct.
DistinctKeys(ps) ==
    \A i, j \in DOMAIN ps : (i # j /\ ps[i].loc = ps[j].loc) => ps[i].key # ps[j].key

PlacementSeqs ==
    UNION {[1..n -> Placements] : n \in 0..MaxEntries}

Documents == {Document(ps) : ps \in {q \in PlacementSeqs : DistinctKeys(q)}}

\* The slices passed to set_dependencies.
DependenciesInputs ==
    {<<>>,
     <<dependencies_name>>,
     <<dev_dependencies_name>>,
     <<build_dependencies_name>>,
     <<dependencies_name, dev_dependencies_name>>,
     <<build_dependencies_name, dependencies_name>>,
     DEFAULT_DEPENDENCIES}

\* The predicates: each accepts a set of names.
Predicates == SUBSET (Keys \cup PackageNames)

\* The threads that share one &Manifest (Manifest is Send and Sync).
Threads == {"a", "b"}

\* The predicates those threads search with.
ThreadPredicates == {{<<"foo">>}, {<<"baz">>}}

\* A thread that is not inside find.
Idle == [state |-> "idle", predicate |-> {}, pos |-> 0, value |-> None]

----------------------------------------------------------------------------
(* The state machine. *)

\* Manifest::from_raw
Init ==
    /\ manifest \in Documents
    /\ options = FindOptions_default
    /\ ret = [op |-> "from_raw", predicate |-> {}, arg |-> <<>>, value |-> None]
    /\ calls = <<>>
    /\ queries = [t \in Threads |-> Idle]

\* set_dependencies leaving the options as they were.
set_dependencies_kept(dependencies) ==
    /\ ret' = [op |-> "set_dependencies", predicate |-> {}, arg |-> dependencies,
               value |-> [some |-> FALSE, val |-> <<>>]]
    /\ calls' = <<>>
    /\ UNCHANGED <<manifest, options, queries>>

\* Manifest::set_dependencies
set_dependencies(dependencies) ==
    /\ options' = [options EXCEPT !.dependencies = dependencies]
    /\ ret' = [op |-> "set_dependencies", predicate |-> {}, arg |-> dependencies,
               value |-> None]
    /\ calls' = <<>>
    /\ UNCHANGED <<manifest, queries>>

\* Manifest::set_rust_ident
set_rust_ident(b) ==
    /\ options' = [options EXCEPT !.rust_ident = b]
    /\ ret' = [op |-> "set_rust_ident", predicate |-> {}, arg |-> b, value |-> None]
    /\ calls' = <<>>
    /\ UNCHANGED <<manifest, queries>>

\* Manifest::find
find(predicate) ==
    /\ ret' = [op |-> "find", predicate |-> predicate, arg |-> <<>>,
               value |-> Manifest_find(manifest, options, predicate)]
    /\ calls' = Manifest_find_calls(manifest, options, predicate)
    /\ UNCHANGED <<manifest, options, queries>>

Next ==
    \/ \E d \in DependenciesInputs : set_dependencies(d)
    \/ \E b \in BOOLEAN : set_rust_ident(b)
    \/ \E p \in Predicates : find(p)

Spec == Init /\ [][Next]_vars

\* The sequences of set_dependencies and find calls alone.
NextSelect ==
    \/ \E d \in DependenciesInputs : set_dependencies(d)
    \/ \E p \in Predicates : find(p)

SpecSelect == Init /\ [][NextSelect]_vars

\* The entries Manifest::find iterates over, in order: those of each table
\* the options name, a name that is absent or no table giving none.
search_items(m, opts) ==
    Concat([i \in DOMAIN opts.dependencies |->
              IF ~get(m, opts.dependencies[i]).some THEN <<>>
              ELSE IF ~as_table(get(m, opts.dependencies[i]).val).some THEN <<>>
              ELSE as_table(get(m, opts.dependencies[i]).val).val])

\* A thread calls find(predicate) on the shared manifest.
begin(t, predicate) ==
    /\ queries[t].state # "running"
    /\ queries' = [queries EXCEPT ![t] =
                      [state |-> "running", predicate |-> predicate, pos |-> 0,
                       value |-> None]]
    /\ UNCHANGED <<manifest, options, ret, calls>>

\* The outcome of a thread's find taking its next item: it returns the entry
\* when the closure accepts it, returns None when that was the last item (or
\* there was none), and goes on otherwise.
advance(q, m, opts) ==
    LET items == search_items(m, opts)
        r == entry_match(items[q.pos + 1][1], items[q.pos + 1][2], q.predicate,
                         opts.rust_ident)
    IN  IF q.pos >= Len(items)
        THEN [q EXCEPT !.state = "done", !.value = None]
        ELSE IF r.some
        THEN [q EXCEPT !.state = "done", !.pos = q.pos + 1, !.value = r]
        ELSE IF q.pos + 1 = Len(items)
        THEN [q EXCEPT !.state = "done", !.pos = q.pos + 1, !.value = None]
        ELSE [q EXCEPT !.pos = q.pos + 1]

\* step with one cursor for all the finds in progress: a thread's step moves
\* every running find on by one item.
step_shared_cursor(t) ==
    /\ queries[t].state = "running"
    /\ queries' = [u \in Threads |->
                      IF u = t THEN advance(queries[u], manifest, options)
                      ELSE IF queries[u].state = "running"
                      THEN [queries[u] EXCEPT !.pos = queries[u].pos + 1]
                      ELSE queries[u]]
    /\ UNCHANGED <<manifest, options, ret, calls>>

\* One step of a thread's find: the closure of find_from_dependencies runs
\* on the next item.
step(t) ==
    /\ queries[t].state = "running"
    /\ queries' = [queries EXCEPT ![t] = advance(queries[t], manifest, options)]
    /\ UNCHANGED <<manifest, options, ret, calls>>

\* Finds running on several threads, their steps interleaved.
NextShared ==
    \/ \E t \in Threads, p \in ThreadPredicates : begin(t, p)
    \/ \E t \in Threads : step(t)

SpecShared == Init /\ [][NextShared]_vars

----------------------------------------------------------------------------
(* ManifestLock: the tables to search, looked up once by Manifest::lock. *)

\* ManifestLock::new collecting the tables in the reverse of the listed order.
ManifestLock_new_reversed(m, opts) ==
    LET deps == opts.dependencies
        n == Len(deps)
    IN  [manifest |-> [manifest |-> m, options |-> opts],
         tables |->
            Concat([i \in 1..n |->
                      IF ~get(m, deps[n + 1 - i]).some THEN <<>>
                      ELSE IF ~as_table(get(m, deps[n + 1 - i]).val).some THEN <<>>
                      ELSE <<as_table(get(m, deps[n + 1 - i]).val).val>>])]

\* ManifestLock::new: the listed names that are tables of the document, in
\* the listed order (filter_map drops a name that is absent or no table).
ManifestLock_new(m, opts) ==
    LET deps == opts.dependencies
    IN  [manifest |-> [manifest |-> m, options |-> opts],
         tables |->
            Concat([i \in DOMAIN deps |->
                      IF ~get(m, deps[i]).some THEN <<>>
                      ELSE IF ~as_table(get(m, deps[i]).val).some THEN <<>>
                      ELSE <<as_table(get(m, deps[i]).val).val>>])]

\* Manifest::lock
Manifest_lock(m, opts) == ManifestLock_new(m, opts)

\* ManifestLock::find
ManifestLock_find(lock, predicate) ==
    find_map([i \in DOMAIN lock.tables |->
                find_from_dependencies(lock.tables[i], predicate,
                                       lock.manifest.options.rust_ident)])

\* The predicate's calls during ManifestLock::find.
ManifestLock_find_calls(lock, predicate) ==
    LET n == find_map_visited([i \in DOMAIN lock.tables |->
                 find_from_dependencies(lock.tables[i], predicate,
                                        lock.manifest.options.rust_ident)])
    IN  Concat([i \in 1..n |-> find_from_dependencies_calls(lock.tables[i], predicate)])

\* Documents in which `dependencies` is a string, not a table, beside a
\* dev-dependencies table of one entry.
OddDocuments ==
    {<< <<dependencies_name, StringValue(<<"0.1">>)>>,
        <<dev_dependencies_name, TableValue(<<e>>)>> >> : e \in Entries}

\* Manifest::from_raw, on those documents too.
InitLock ==
    /\ manifest \in Documents \cup OddDocuments
    /\ options = FindOptions_default
    /\ ret = [op |-> "from_raw", predicate |-> {}, arg |-> <<>>, value |-> None]
    /\ calls = <<>>
    /\ queries = [t \in Threads |-> Idle]

\* manifest.lock().find(predicate)
lock_find(predicate) ==
    /\ ret' = [op |-> "lock_find", predicate |-> predicate, arg |-> <<>>,
               value |-> ManifestLock_find(Manifest_lock(manifest, options), predicate)]
    /\ calls' = ManifestLock_find_calls(Manifest_lock(manifest, options), predicate)
    /\ UNCHANGED <<manifest, options, queries>>

NextLock ==
    \/ \E d \in DependenciesInputs : set_dependencies(d)
    \/ \E b \in BOOLEAN : set_rust_ident(b)
    \/ \E p \in Predicates : lock_find(p)

SpecLock == InitLock /\ [][NextLock]_vars

----------------------------------------------------------------------------
(* find_crate and Manifest::new: the manifest is read from Cargo.toml in the *)
(* directory CARGO_MANIFEST_DIR names.  The environment of a call says       *)
(* whether the variable is set (and to what), and how the file fares: it is  *)
(* no file, cannot be opened, cannot be read, is no toml, or parses, and     *)
(* then to the document `manifest`.                                          *)

\* Result<T, Error>
Ok(x) == [ok |-> TRUE, val |-> x, err |-> <<>>]

Err(kind, path) == [ok |-> FALSE, val |-> <<>>, err |-> [kind |-> kind, path |-> path]]

FileStatuses == {"missing", "unopenable", "unreadable", "malformed", "ok"}

Environments ==
    {[manifest_dir |-> None, file |-> "ok"]}
    \cup {[manifest_dir |-> Some(<<"/crate">>), file |-> f] : f \in FileStatuses}

\* manifest_path
manifest_path(env) ==
    IF ~env.manifest_dir.some THEN Err("NotFoundManifestDir", <<>>)
    ELSE Ok(env.manifest_dir.val \o <<"Cargo.toml">>)

\* Manifest::from_raw
Manifest_from_raw(doc) == [manifest |-> doc, options |-> FindOptions_default]

\* Manifest::from_bytes
Manifest_from_bytes(file, doc) ==
    IF file = "malformed" THEN Err("Toml", <<>>) ELSE Ok(Manifest_from_raw(doc))

\* Manifest::from_path reporting a missing file as the crate not found.
Manifest_from_path_not_found(path, file, doc) ==
    IF file = "missing" THEN Err("NotFound", path)
    ELSE IF file = "unopenable" THEN Err("Open", path)
    ELSE IF file = "unreadable" THEN Err("Read", path)
    ELSE Manifest_from_bytes(file, doc)

\* Manifest::from_path
Manifest_from_path(path, file, doc) ==
    IF file = "missing" THEN Err("NotFoundManifestFile", path)
    ELSE IF file = "unopenable" THEN Err("Open", path)
    ELSE IF file = "unreadable" THEN Err("Read", path)
    ELSE Manifest_from_bytes(file, doc)

\* Manifest::new
Manifest_new(env, doc) ==
    IF ~manifest_path(env).ok THEN manifest_path(env)
    ELSE Manifest_from_path(manifest_path(env).val, env.file, doc)

\* find_crate
find_crate(env, doc, predicate) ==
    IF ~manifest_path(env).ok THEN manifest_path(env)
    ELSE LET path == manifest_path(env).val
             m == Manifest_from_path(path, env.file, doc)
         IN  IF ~m.ok THEN m
             ELSE LET found == Manifest_find(m.val.manifest, m.val.options, predicate)
                  IN  IF found.some THEN Ok(found.val.rust_ident.s)
                      ELSE Err("NotFound", path)

\* The predicate's calls during find_crate.
find_crate_calls(env, doc, predicate) ==
    IF Manifest_new(env, doc).ok
    THEN Manifest_find_calls(doc, FindOptions_default, predicate)
    ELSE <<>>

\* The predicates of these calls: one accepting nothing, and one for each key.
CratePredicates == {{}} \cup {{k} : k \in Keys}

\* A call of Manifest::new.
new(env) ==
    /\ ret' = [op |-> "new", predicate |-> {}, arg |-> env,
               value |-> Manifest_new(env, manifest)]
    /\ calls' = <<>>
    /\ UNCHANGED <<manifest, options, queries>>

\* A call of find_crate.
call_find_crate(env, predicate) ==
    /\ ret' = [op |-> "find_crate", predicate |-> predicate, arg |-> env,
               value |-> find_crate(env, manifest, predicate)]
    /\ calls' = find_crate_calls(env, manifest, predicate)
    /\ UNCHANGED <<manifest, options, queries>>

\* The calls that read the environment, beside find on a manifest with the
\* default options.
NextCrate ==
    \/ \E e \in Environments : new(e)
    \/ \E e \in Environments, p \in CratePredicates : call_find_crate(e, p)
    \/ \E p \in CratePredicates : find(p)

SpecCrate == Init /\ [][NextCrate]_vars

----------------------------------------------------------------------------
(* What the properties below speak of, stated from the document alone: the  *)
(* entries of the tables a search covers, flattened in search order.        *)

\* The top-level table called `name`: empty when absent or not a table.
TopTable(m, name) ==
    LET hits == {i \in DOMAIN m : m[i][1] = name /\ m[i][2].tag = "Table"}
    IN  IF hits = {} THEN <<>> ELSE m[CHOOSE i \in hits : TRUE][2].tab

\* The entries of the top-level tables named by `deps`, in the order of `deps`
\* and, within a table, in the table's order.
RECURSIVE Searched(_, _)
Searched(m, deps) ==
    IF deps = <<>> THEN <<>> ELSE TopTable(m, Head(deps)) \o Searched(m, Tail(deps))

\* The entries of the tables named by `deps` nested under an entry of `target`.
TargetEntries(m, deps) ==
    LET specs == TopTable(m, target_name)
    IN  {e \in UNION {{TopTable(specs[i][2].tab, deps[j])[k] :
                          k \in DOMAIN TopTable(specs[i][2].tab, deps[j])} :
                      i \in {x \in DOMAIN specs : specs[x][2].tag = "Table"},
                      j \in DOMAIN deps} : TRUE}

\* The entry's value is a table with a string `package` field.
IsRenamed(e) ==
    /\ e[2].tag = "Table"
    /\ \E i \in DOMAIN e[2].tab :
          e[2].tab[i][1] = <<"package">> /\ e[2].tab[i][2].tag = "String"

\* That `package` string.
PackageOf(e) ==
    e[2].tab[CHOOSE i \in DOMAIN e[2].tab : e[2].tab[i][1] = <<"package">>][2].str

\* The entry's value is a table with a string `version` field.
HasVersion(e) ==
    /\ e[2].tag = "Table"
    /\ \E i \in DOMAIN e[2].tab :
          e[2].tab[i][1] = <<"version">> /\ e[2].tab[i][2].tag = "String"

\* That `version` string.
VersionOf(e) ==
    e[2].tab[CHOOSE i \in DOMAIN e[2].tab : e[2].tab[i][1] = <<"version">>][2].str

\* The predicate accepts the entry's key or its `package` string.
Accepts(pred, e) == e[1] \in pred \/ (IsRenamed(e) /\ PackageOf(e) \in pred)

\* The index of the first entry of `es` the predicate accepts, 0 when none.
FirstAccepted(es, pred) ==
    LET hits == {i \in DOMAIN es : Accepts(pred, es[i])}
    IN  IF hits = {} THEN 0 ELSE CHOOSE i \in hits : \A j \in hits : i <= j

\* The last call was a find, and what it searched.
Found == ret.op = "find" /\ ret.value.some

SearchedNow == Searched(manifest, options.dependencies)

FirstNow == FirstAccepted(SearchedNow, ret.predicate)

\* The selectors' lists, as the specification names them.
Selector_Default == <<dependencies_name, dev_dependencies_name>>

Selector_Release == <<dependencies_name>>

Selector_Dev == <<dev_dependencies_name>>

Selector_Build == <<build_dependencies_name>>

Selector_All == <<dependencies_name, dev_dependencies_name, build_dependencies_name>>

----------------------------------------------------------------------------
(* The properties. *)

\* The names of the top-level tables holding an entry the predicate accepts.
AcceptingTables(pred) ==
    {n \in {manifest[i][1] : i \in DOMAIN manifest} \ {target_name} :
        \E k \in DOMAIN TopTable(manifest, n) : Accepts(pred, TopTable(manifest, n)[k])}

Listed == {options.dependencies[i] : i \in DOMAIN options.dependencies}

\* C1: find matches only entries of the tables the current list names: what
\* it returns is an accepted entry of a listed table, the predicate is applied
\* only to keys and `package` strings of listed tables' entries, and so an
\* entry that exists only in a table outside the list is never returned.
C1_OnlyListedTables ==
    ret.op = "find" =>
        /\ ret.value.some =>
              \E i \in DOMAIN SearchedNow :
                  /\ Accepts(ret.predicate, SearchedNow[i])
                  /\ SearchedNow[i][1] = ret.value.val.key
                  /\ version(SearchedNow[i][2]) = ret.value.val.version
        /\ \A j \in DOMAIN calls :
              \E i \in DOMAIN SearchedNow :
                  \/ calls[j] = SearchedNow[i][1]
                  \/ IsRenamed(SearchedNow[i]) /\ calls[j] = PackageOf(SearchedNow[i])
        /\ (AcceptingTables(ret.predicate) \cap Listed = {}) => ~ret.value.some

\* C1's case: an accepted entry lives only in tables outside the list (one of
\* them dev-dependencies under the release-only list), and find returned none.
C1_Witness ==
    /\ ret.op = "find"
    /\ options.dependencies = Selector_Release
    /\ dev_dependencies_name \in AcceptingTables(ret.predicate)
    /\ AcceptingTables(ret.predicate) \cap Listed = {}
    /\ ~ret.value.some

\* C2 (as claimed): the default list is dependencies then dev-dependencies, so
\* with the default options a crate declared only in build-dependencies is not
\* found, while the build-only list and the all list find it.
C2_DefaultSkipsBuild ==
    (ret.op = "find" /\ AcceptingTables(ret.predicate) = {build_dependencies_name}) =>
        /\ options.dependencies = FindOptions_default.dependencies => ~ret.value.some
        /\ options.dependencies = Selector_Build => ret.value.some
        /\ options.dependencies = Selector_All => ret.value.some

\* The index in the list of the first listed table holding an accepted entry.
EarliestAccepting ==
    CHOOSE i \in DOMAIN options.dependencies :
        /\ options.dependencies[i] \in AcceptingTables(ret.predicate)
        /\ \A j \in DOMAIN options.dependencies :
              options.dependencies[j] \in AcceptingTables(ret.predicate) => i <= j

\* C3: when listed tables hold accepted entries, find returns an accepted
\* entry of the one that comes earliest in the list.
C3_EarliestTableWins ==
    (ret.op = "find" /\ AcceptingTables(ret.predicate) \cap Listed # {}) =>
        /\ ret.value.some
        /\ LET t == TopTable(manifest, options.dependencies[EarliestAccepting])
           IN  \E k \in DOMAIN t :
                  /\ Accepts(ret.predicate, t[k])
                  /\ t[k][1] = ret.value.val.key
                  /\ version(t[k][2]) = ret.value.val.version

\* C3's case: two listed tables hold accepted entries, and the later one's
\* have another version than the entry returned.
C3_Witness ==
    /\ Found
    /\ Cardinality(AcceptingTables(ret.predicate) \cap Listed) >= 2
    /\ \E i \in DOMAIN options.dependencies :
          /\ i > EarliestAccepting
          /\ options.dependencies[i] \in AcceptingTables(ret.predicate)
          /\ \A k \in DOMAIN TopTable(manifest, options.dependencies[i]) :
                version(TopTable(manifest, options.dependencies[i])[k][2])
                    # ret.value.val.version

\* `s` with every hyphen replaced by an underscore.
Underscored(s) == [i \in 1..Len(s) |-> IF s[i] = "-" THEN "_" ELSE s[i]]

HasHyphen(s) == \E i \in 1..Len(s) : s[i] = "-"

\* The first accepted entry in search order (when FirstNow > 0).
FirstEntry == SearchedNow[FirstNow]

\* The search's first accepted entry is `key = { package = P, version = V }`
\* and the predicate accepts P and not key.
RenamedByPackage ==
    /\ ret.op = "find"
    /\ FirstNow > 0
    /\ IsRenamed(FirstEntry) /\ HasVersion(FirstEntry)
    /\ PackageOf(FirstEntry) \in ret.predicate
    /\ FirstEntry[1] \notin ret.predicate

\* C4 (as claimed): for such an entry find returns a descriptor whose name is
\* key with hyphens replaced by underscores, whose original name is P and
\* whose version is V.
C4_RenamedDescriptor ==
    RenamedByPackage =>
        /\ ret.value.some
        /\ Package_name(ret.value.val) = Underscored(FirstEntry[1])
        /\ Package_original_name(ret.value.val) = PackageOf(FirstEntry)
        /\ Package_version(ret.value.val) = Some(VersionOf(FirstEntry))

\* C4 (amended): for such an entry find returns a descriptor whose original
\* name is P, whose version is V, and whose name is key with hyphens replaced
\* by underscores while the rust_ident option is true (the default), and key
\* as written while it is false.
C4_RenamedDescriptorAmended ==
    RenamedByPackage =>
        /\ ret.value.some
        /\ Package_name(ret.value.val) =
              (IF options.rust_ident THEN Underscored(FirstEntry[1]) ELSE FirstEntry[1])
        /\ Package_original_name(ret.value.val) = PackageOf(FirstEntry)
        /\ ~Package_is_original(ret.value.val)
        /\ Package_version(ret.value.val) = Some(VersionOf(FirstEntry))

\* C4's case: a renamed entry with a hyphen in its key was found by its
\* `package` string, with the conversion on.
C4_Witness ==
    /\ RenamedByPackage
    /\ options.rust_ident
    /\ HasHyphen(FirstEntry[1])
    /\ ret.value.some
    /\ Package_name(ret.value.val) # FirstEntry[1]

\* The search's first accepted entry is renamed, and the predicate accepts its
\* key and not its `package` string.
RenamedByKey ==
    /\ ret.op = "find"
    /\ FirstNow > 0
    /\ IsRenamed(FirstEntry)
    /\ FirstEntry[1] \in ret.predicate
    /\ PackageOf(FirstEntry) \notin ret.predicate

\* C5 (as claimed): a predicate that accepts the key of a renamed entry and
\* not its `package` string does not match the entry: find does not return it.
C5_KeyAloneDoesNotMatch ==
    RenamedByKey => ~(ret.value.some /\ ret.value.val.key = FirstEntry[1])

\* C5 (amended): a predicate that accepts the key of a renamed entry and not
\* its `package` string does match the entry: find returns it, with no
\* original name other than the key, and with the entry's version.
C5_KeyAloneMatches ==
    RenamedByKey =>
        /\ ret.value.some
        /\ ret.value.val.key = FirstEntry[1]
        /\ Package_is_original(ret.value.val)
        /\ Package_original_name(ret.value.val) = FirstEntry[1]
        /\ HasVersion(FirstEntry) =>
              Package_version(ret.value.val) = Some(VersionOf(FirstEntry))

\* C5's case: a renamed entry was found by its key, the predicate refusing its
\* `package` string.
C5_Witness ==
    /\ RenamedByKey
    /\ ret.value.some
    /\ ret.value.val.key = FirstEntry[1]
    /\ PackageOf(FirstEntry) # FirstEntry[1]

\* C6 (as claimed): the version reported for the matched entry is the value
\* when it is a bare string, the `version` field when it is a table with a
\* string `version`, and the literal "*" when it is a table lacking `version`.
C6_VersionReported ==
    (ret.op = "find" /\ FirstNow > 0) =>
        /\ ret.value.some
        /\ Package_version(ret.value.val) =
              Some(IF FirstEntry[2].tag = "String" THEN FirstEntry[2].str
                   ELSE IF HasVersion(FirstEntry) THEN VersionOf(FirstEntry)
                   ELSE <<"*">>)

\* The predicate accepts an entry of a listed table nested under `target`.
TargetAccepts ==
    \E e \in TargetEntries(manifest, options.dependencies) : Accepts(ret.predicate, e)

\* C7 (as claimed): when no top-level listed table yields a match, find
\* searches the same table names under every entry of `target`, so a
\* dependency declared only there is found, with its version.
C7_TargetFallback ==
    (ret.op = "find" /\ FirstNow = 0 /\ TargetAccepts) =>
        /\ ret.value.some
        /\ \E e \in TargetEntries(manifest, options.dependencies) :
              /\ Accepts(ret.predicate, e)
              /\ ret.value.val.key = e[1]
              /\ ret.value.val.version = version(e[2])

\* C8: when the predicate accepts an entry of a listed top-level table and
\* also an entry of a table nested under `target`, find returns the top-level
\* one: the first accepted entry of the top-level pass.
C8_TopLevelBeforeTarget ==
    (ret.op = "find" /\ FirstNow > 0 /\ TargetAccepts) =>
        /\ ret.value.some
        /\ ret.value.val.key = FirstEntry[1]
        /\ ret.value.val.version = version(FirstEntry[2])
        /\ \A j \in DOMAIN calls :
              \E i \in DOMAIN SearchedNow :
                  \/ calls[j] = SearchedNow[i][1]
                  \/ IsRenamed(SearchedNow[i]) /\ calls[j] = PackageOf(SearchedNow[i])

\* C8's case: the only top-level match is in dev-dependencies, `dependencies`
\* comes before it in the list, and target.<spec>.dependencies holds an
\* accepted entry unlike the one returned.
C8_Witness ==
    /\ Found
    /\ options.dependencies = DEFAULT_DEPENDENCIES
    /\ AcceptingTables(ret.predicate) \cap Listed = {dev_dependencies_name}
    /\ \E e \in TargetEntries(manifest, <<dependencies_name>>) :
          /\ Accepts(ret.predicate, e)
          /\ <<e[1], version(e[2])>> # <<ret.value.val.key, ret.value.val.version>>

\* C9 (as claimed): for every successful find, in every configuration, the
\* returned name is the matched key with every hyphen replaced by an
\* underscore, and holds no hyphen.
C9_NameNormalized ==
    Found =>
        /\ Package_name(ret.value.val) = Underscored(ret.value.val.key)
        /\ ~HasHyphen(Package_name(ret.value.val))

\* C9 (amended): for every successful find made while the rust_ident option
\* is true (the default), the returned name is the matched key with every
\* hyphen replaced by an underscore, and holds no hyphen; while the option is
\* false the returned name is the matched key as written.
C9_NameNormalizedWhenConverting ==
    Found =>
        /\ FirstNow > 0
        /\ ret.value.val.key = FirstEntry[1]
        /\ options.rust_ident =>
              /\ Package_name(ret.value.val) = Underscored(FirstEntry[1])
              /\ ~HasHyphen(Package_name(ret.value.val))
        /\ ~options.rust_ident => Package_name(ret.value.val) = FirstEntry[1]

\* C9's case: the matched key holds a hyphen and the conversion is on.
C9_Witness ==
    /\ Found
    /\ options.rust_ident
    /\ HasHyphen(ret.value.val.key)

\* C10 (as claimed): the list of table names find will probe is non-empty and
\* is one of the lists of the closed selector set.
C10_ClosedSelectorSet ==
    /\ options.dependencies # <<>>
    /\ options.dependencies \in
          {Selector_Default, Selector_Release, Selector_Dev, Selector_Build, Selector_All}

\* C11 (as claimed): find returns absent if and only if no entry of a searched
\* table (the listed top-level tables and, as fallback, the same-named tables
\* under each target) has its key or its `package` string accepted.
C11_AbsentIffNoMatch ==
    ret.op = "find" => (~ret.value.some <=> (FirstNow = 0 /\ ~TargetAccepts))

\* The last call ended with the crate-not-found error.
IsNotFound == ~ret.value.ok /\ ret.value.err.kind = "NotFound"

\* C12: the crate-not-found error comes only from find_crate, and exactly when
\* the manifest was located, read and parsed and the search matched nothing;
\* Manifest::find reports that situation as an absent result, never as an
\* error, and constructing a manifest never gives the not-found kind.
C12_NotFoundOnlyFromFindCrate ==
    /\ ret.op = "find_crate" =>
          /\ IsNotFound <=>
                /\ ret.arg.manifest_dir.some
                /\ ret.arg.file = "ok"
                /\ FirstAccepted(Searched(manifest, DEFAULT_DEPENDENCIES),
                                 ret.predicate) = 0
          /\ IsNotFound => ret.value.err.path = ret.arg.manifest_dir.val \o <<"Cargo.toml">>
    /\ ret.op = "new" => ~IsNotFound
    /\ ret.op = "find" =>
          /\ DOMAIN ret.value = {"some", "val"}
          /\ FirstNow = 0 => ret.value = [some |-> FALSE, val |-> <<>>]

\* C12's case: find_crate read a manifest that holds entries, none of them
\* accepted, and gave the not-found error.
C12_Witness ==
    /\ ret.op = "find_crate"
    /\ IsNotFound
    /\ ret.predicate # {}
    /\ Searched(manifest, DEFAULT_DEPENDENCIES) # <<>>

\* What a search of the top-level tables named by `deps` gives, from the
\* document, the list, the conversion and the predicate alone: the first
\* accepted entry in search order, matched by its key when the predicate
\* accepts the key and by its `package` string otherwise.
Expected(m, deps, convert, pred) ==
    LET es == Searched(m, deps)
        k == FirstAccepted(es, pred)
    IN  IF k = 0 THEN [some |-> FALSE, val |-> <<>>]
        ELSE [some |-> TRUE,
              val |-> [key |-> es[k][1],
                       version |->
                           IF es[k][2].tag = "String"
                           THEN [some |-> TRUE, val |-> es[k][2].str]
                           ELSE IF HasVersion(es[k])
                           THEN [some |-> TRUE, val |-> VersionOf(es[k])]
                           ELSE [some |-> FALSE, val |-> <<>>],
                       package |->
                           IF es[k][1] \in pred THEN [some |-> FALSE, val |-> <<>>]
                           ELSE [some |-> TRUE, val |-> PackageOf(es[k])],
                       rust_ident |->
                           IF convert THEN [cow |-> "Owned", s |-> Underscored(es[k][1])]
                           ELSE [cow |-> "Borrowed", s |-> es[k][1]]]]

\* C13: after any sequence of set_dependencies and find calls, dependencies()
\* is the list most recently set (the default list if none was set), a find
\* leaves it as it is, and each find's result is what the document, that
\* current list and the predicate alone give.
C13_CurrentSelectorUsed ==
    /\ [](/\ ret.op = "from_raw" => options.dependencies = DEFAULT_DEPENDENCIES
          /\ ret.op = "set_dependencies" => options.dependencies = ret.arg
          /\ ret.op = "find" =>
                ret.value = Expected(manifest, options.dependencies, TRUE, ret.predicate))
    /\ [][ret'.op = "find" => options'.dependencies = options.dependencies]_vars

\* C13's case: a find made after the list was set to the dev-only list found
\* an entry.
C13_Witness ==
    /\ Found
    /\ options.dependencies = Selector_Dev
    /\ ret.value = Expected(manifest, Selector_Dev, TRUE, ret.predicate)
    /\ ret.value # Expected(manifest, DEFAULT_DEPENDENCIES, TRUE, ret.predicate)

\* C14: a find leaves the document and the options as they were, so finds
\* whose steps interleave in any order each return what the document, the
\* options and their own predicate alone give.
C14_QueriesIndependent ==
    /\ [](\A t \in Threads :
            queries[t].state = "done" =>
                queries[t].value = Expected(manifest, options.dependencies,
                                            options.rust_ident, queries[t].predicate))
    /\ [][queries' # queries => manifest' = manifest /\ options' = options]_vars

\* C14's case: one thread's find has returned an entry while the other's,
\* begun with another predicate, is past its first item and still running.
C14_Witness ==
    /\ queries["a"].state = "done"
    /\ queries["a"].value.some
    /\ queries["b"].state = "running"
    /\ queries["b"].pos >= 1
    /\ queries["b"].predicate # queries["a"].predicate

\* C15: the `package` string is checked before the key: when the entry found
\* is a table with a `package` string P the predicate accepts, the
\* descriptor's original name is P, also when the key is accepted as well; it
\* holds no original name only when P is not accepted or there is no
\* `package` string.
C15_PackageCheckedFirst ==
    Found /\ FirstNow # 0 =>
        LET p == ret.value.val
            accepted == IsRenamed(FirstEntry) /\ PackageOf(FirstEntry) \in ret.predicate
        IN  /\ accepted =>
                /\ p.package = [some |-> TRUE, val |-> PackageOf(FirstEntry)]
                /\ Package_original_name(p) = PackageOf(FirstEntry)
            /\ ~p.package.some => ~accepted

\* The strings the predicate is applied to when entries 1..k of `es` are
\* scanned in order: each entry's key, and its `package` string when it has
\* one and the key was not accepted.
ScanCalls(es, k, pred) ==
    Concat([i \in 1..k |->
              IF es[i][1] \in pred \/ ~IsRenamed(es[i]) THEN <<es[i][1]>>
              ELSE <<es[i][1], PackageOf(es[i])>>])

\* C16: find returns the first entry, in iteration order, whose key or
\* `package` string the predicate accepts, and the scan stops there: the
\* predicate was applied to the entries up to that one, in order, and to no
\* later entry of that table or of a later table.
C16_StopsAtFirstMatch ==
    Found =>
        /\ FirstNow # 0
        /\ ret.value.val.key = FirstEntry[1]
        /\ calls = ScanCalls(SearchedNow, FirstNow, ret.predicate)

\* C16's case: the entry found is followed by an entry the predicate would
\* accept too, which the scan did not reach.
C16_Witness ==
    /\ Found
    /\ FirstNow # 0
    /\ FirstNow < Len(SearchedNow)
    /\ Accepts(ret.predicate, SearchedNow[Len(SearchedNow)])
    /\ Len(calls) < Len(ScanCalls(SearchedNow, Len(SearchedNow), ret.predicate))

\* C17: for every document, table list, rust_ident setting and predicate,
\* manifest.lock().find(predicate) returns what manifest.find(predicate)
\* returns, and applies the predicate to the same strings in the same order.
C17_LockFindAgrees ==
    ret.op = "lock_find" =>
        /\ ret.value = Manifest_find(manifest, options, ret.predicate)
        /\ calls = Manifest_find_calls(manifest, options, ret.predicate)

\* C17's case: the lock dropped a listed name that is no table (and one that
\* is absent), and its find returned an entry of a later table.
C17_Witness ==
    /\ ret.op = "lock_find"
    /\ ret.value.some
    /\ options.dependencies = DEFAULT_DEPENDENCIES
    /\ get(manifest, dependencies_name).some
    /\ ~as_table(get(manifest, dependencies_name).val).some
    /\ ~get(manifest, build_dependencies_name).some
    /\ Len(Manifest_lock(manifest, options).tables) < Len(options.dependencies)

====
